---------------------------- MODULE Spec2Model ----------------------------
(***************************************************************************)
(* The smokers problem of semSharedMemSmoker.c: NUMSMOKERS smoker          *)
(* processes, each running main's life cycle                               *)
(*     while (waitForIngredients(n)) { rollingCigarette(n); smoke(n); }    *)
(* over one shared memory region (sh->fSt) and one semaphore set (mutex,   *)
(* wait2Ings[], waitCigarette).  Every semaphore operation and every       *)
(* statement between two of them is one step of the smoker, so that the    *)
(* interleavings of the processes are the ones the semaphores allow.       *)
(* The agent/watcher side is not part of semSharedMemSmoker.c; it is       *)
(* modelled from the interface the specification gives it.                 *)
(***************************************************************************)
EXTENDS Integers, Sequences, FiniteSets, TLC

\* ------------------------------------------------------------------ sizes
\* number of smoker processes (probConst.h; main checks n >= NUMSMOKERS)
NUMSMOKERS == 3
\* number of ingredient kinds: the bound of the loop "for(n=0;n<3;n++)"
NUMINGREDIENTS == 3
\* how many times the agent supplies a pair of ingredients in a run
MaxSupply == 2
\* the same, in the runs of NoWakeSpec and of FairSpec
MaxSupplyNoWake == 1
MaxSupplyFair == 1
\* the same, in the runs in which semaphore operations may fail
MaxSupplyFail == 1

Smokers == 0 .. (NUMSMOKERS - 1)
Ingredients == 0 .. (NUMINGREDIENTS - 1)

\* smoker states written to sh->fSt.st.smokerStat[id]
WAITING_2ING == "WAITING_2ING"
ROLLING == "ROLLING"
SMOKING == "SMOKING"
CLOSING_S == "CLOSING_S"

\* values 100.0 + normalRand(30.0) can take: normalRand(30.0) lies in
\* [-180, 180), so the time is positive or not
DelayValues == {-80, 100}

VARIABLES
    \* the semaphore set
    mutex,          \* sh->mutex: semaphore guarding the shared region
    wait2Ings,      \* sh->wait2Ings[id]: smoker id waits for its ingredients
    waitCigarette,  \* sh->waitCigarette: agent waits for a rolled cigarette
    \* the shared region sh->fSt
    ingredients,    \* sh->fSt.ingredients[n]
    smokerStat,     \* sh->fSt.st.smokerStat[id]
    nCigarettes,    \* sh->fSt.nCigarettes[id]
    closing,        \* sh->fSt.closing
    \* the log file written by saveState: the last snapshot appended
    logged,
    \* each smoker process
    pc,             \* the statement smoker id executes next
    ret,            \* waitForIngredients' local ret
    n,              \* the loop variable of waitForIngredients' for loop
    delay,          \* rollingTime / smokingTime while it is in use, else 0
    exitCode,       \* the exit status of the process, "none" while it runs
    \* the agent
    apc,            \* the statement the agent executes next
    target,         \* the smokers the agent has still to signal
    supplied,       \* how many pairs of ingredients the agent has supplied
    \* history of the run (written, never read, by the program's steps)
    dec,            \* dec[id][k]: decrements of ingredients[k] made by id
    hist,           \* statuses smoker id wrote since its last cigarette
    entry,          \* the shared region as the running critical section
                    \* of waitForIngredients (second one) found it
    nSignals,       \* semUp operations made on wait2Ings[id]
    nWaits,         \* semDown operations completed on wait2Ings[id]
    woken,          \* smokers signalled after closing was set
    nRolled,        \* semUp operations smoker id made on waitCigarette
    failed,         \* smokers that had a semaphore operation return -1
    \* the start of one smoker process: main before the life cycle
    mpc,            \* the statement of main's start executed next
    argc,           \* number of command line words, the program name included
    argv1,          \* argv[1], the smoker id, as a sequence of characters
    argv3           \* argv[3], the access key, as a sequence of characters

semVars == <<mutex, wait2Ings, waitCigarette>>
shVars == <<ingredients, smokerStat, nCigarettes, closing>>
smokerVars == <<pc, ret, n, delay, exitCode>>
agentVars == <<apc, target, supplied>>
histVars == <<dec, hist, entry, nSignals, nWaits, woken, nRolled, failed>>
startVars == <<mpc, argc, argv1, argv3>>
vars == <<semVars, shVars, logged, smokerVars, agentVars, histVars,
          startVars>>

\* the full state a saveState call writes
fSt == [ingredients |-> ingredients, smokerStat |-> smokerStat,
        nCigarettes |-> nCigarettes, closing |-> closing]

\* ------------------------------------------------------------ semaphores
\* semDown blocks while the semaphore is 0 and then takes one unit
CanDown(sem) == sem > 0
SemDown(sem) == sem - 1
\* semUp adds one unit
SemUp(sem) == sem + 1

\* smoker id is between a semDown(mutex) and the matching semUp(mutex)
InCS(id) == pc[id] \in {"wfi_state", "wfi_exit1",
                        "wfi_check", "wfi_loop", "wfi_save", "wfi_exit2",
                        "roll_state", "roll_sleep", "roll_exit",
                        "smoke_state", "smoke_sleep", "smoke_count",
                        "smoke_exit"}
AgentInCS == apc \in {"cs", "exit"}

\* ----------------------------------------------------------------- Init
\* the shared region and the semaphore set as they are created, with every
\* smoker at the start of its life cycle
InitSystem ==
    /\ mutex = 1
    /\ wait2Ings = [i \in Smokers |-> 0]
    /\ waitCigarette = 0
    /\ ingredients = [k \in Ingredients |-> 0]
    /\ smokerStat = [i \in Smokers |-> WAITING_2ING]
    /\ nCigarettes = [i \in Smokers |-> 0]
    /\ closing = FALSE
    /\ logged = [ingredients |-> [k \in Ingredients |-> 0],
                 smokerStat |-> [i \in Smokers |-> WAITING_2ING],
                 nCigarettes |-> [i \in Smokers |-> 0],
                 closing |-> FALSE]
    /\ pc = [i \in Smokers |-> "wfi_enter1"]
    /\ ret = [i \in Smokers |-> TRUE]
    /\ n = [i \in Smokers |-> 0]
    /\ delay = [i \in Smokers |-> 0]
    /\ exitCode = [i \in Smokers |-> "none"]
    /\ apc = "idle"
    /\ target = {}
    /\ supplied = 0
    /\ dec = [i \in Smokers |-> [k \in Ingredients |-> 0]]
    /\ hist = [i \in Smokers |-> <<>>]
    /\ entry = <<>>
    /\ nSignals = [i \in Smokers |-> 0]
    /\ nWaits = [i \in Smokers |-> 0]
    /\ woken = {}
    /\ nRolled = [i \in Smokers |-> 0]
    /\ failed = {}

\* the life cycles of the smokers, every process started with good parameters
Init ==
    /\ InitSystem
    /\ mpc = "running"
    /\ argc = 5
    /\ argv1 = <<"0">>
    /\ argv3 = <<"0">>

\* ---------------------------------------------------------- main's start
\* the value of a character as a digit, 99 when it is none
DigitVal(c) ==
    CASE c = "0" -> 0 [] c = "1" -> 1 [] c = "2" -> 2 [] c = "3" -> 3
      [] c = "4" -> 4 [] c = "5" -> 5 [] c = "6" -> 6 [] c = "7" -> 7
      [] c = "8" -> 8 [] c = "9" -> 9 [] c = "a" -> 10 [] c = "b" -> 11
      [] c = "c" -> 12 [] c = "d" -> 13 [] c = "e" -> 14 [] c = "f" -> 15
      [] OTHER -> 99

\* a long is 64 bits wide; it is kept as four 16-bit limbs, lowest first
Limb == 65536
LongZero == <<0, 0, 0, 0>>

\* limbs i.. of l * b + carry
RECURSIVE MulAddFrom(_, _, _, _)
MulAddFrom(l, b, carry, i) ==
    IF i > Len(l) THEN <<>>
    ELSE LET t == l[i] * b + carry
         IN  <<t % Limb>> \o MulAddFrom(l, b, t \div Limb, i + 1)

\* the index of the first character of s at or after i that is no blank
RECURSIVE SkipSpace(_, _)
SkipSpace(s, i) ==
    IF i <= Len(s) /\ s[i] = " " THEN SkipSpace(s, i + 1) ELSE i

\* the digits of s from index i in the given base: the value accumulated
\* in acc and the index of the first character that is no digit of the base
RECURSIVE ScanNumber(_, _, _, _)
ScanNumber(s, i, base, acc) ==
    IF i <= Len(s) /\ DigitVal(s[i]) < base
      THEN ScanNumber(s, i + 1, base, MulAddFrom(acc, base, DigitVal(s[i]), 1))
      ELSE [mag |-> acc, end |-> i]

\* strtol (s, &tinp, 0): blanks, an optional sign, the base from the prefix
\* (0x: 16, 0: 8, else 10), then the digits of that base.  neg and mag give
\* the long returned, end the index tinp points to (Len(s)+1: the final
\* '\0'); when no digit is found the value is 0 and tinp is s itself.
\* (The strings used are too short for the value to leave the long.)
Strtol(s) ==
    LET p0 == SkipSpace(s, 1)
        signed == p0 <= Len(s) /\ s[p0] \in {"-", "+"}
        p1 == IF signed THEN p0 + 1 ELSE p0
        hex == /\ p1 + 2 <= Len(s)
               /\ s[p1] = "0"
               /\ s[p1 + 1] \in {"x", "X"}
               /\ DigitVal(s[p1 + 2]) < 16
        base == IF hex THEN 16
                ELSE IF p1 <= Len(s) /\ s[p1] = "0" THEN 8 ELSE 10
        from == IF hex THEN p1 + 2 ELSE p1
        r == ScanNumber(s, from, base, LongZero)
    IN  IF r.end = from
          THEN [neg |-> FALSE, mag |-> LongZero, end |-> 1]
          ELSE [neg |-> signed /\ s[p0] = "-", mag |-> r.mag, end |-> r.end]

\* (unsigned int) of the long: the low 32 bits of its two's complement, as
\* the two low limbs
ToUnsigned(r) ==
    IF ~r.neg THEN <<r.mag[1], r.mag[2]>>
    ELSE IF r.mag[1] = 0
           THEN <<0, (Limb - r.mag[2]) % Limb>>
           ELSE <<Limb - r.mag[1], Limb - 1 - r.mag[2]>>

\* the unsigned int stored in the int n: the same 32 bits, read as signed
ToInt(u) ==
    IF u[2] >= Limb \div 2 THEN (u[2] - Limb) * Limb + u[1]
    ELSE u[2] * Limb + u[1]

\* line 71: n = (unsigned int) strtol (argv[1], &tinp, 0)
SmokerId(s) == ToInt(ToUnsigned(Strtol(s)))

\* *tinp != '\0' after strtol (s, &tinp, 0)
TinpNotAtEnd(s) == Strtol(s).end <= Len(s)

\* the command lines the process is started with
ArgCounts == 1 .. 6
IdArgs ==
    {<<"0">>, <<"1">>, <<"2">>, <<"3">>, <<"7">>, <<"-", "1">>, <<>>,
     <<"x">>, <<"2", "x">>, <<"0", "2">>, <<"0", "x", "2">>, <<" ", "1">>,
     <<"4", "2", "9", "4", "9", "6", "7", "2", "9", "6">>,
     <<"4", "2", "9", "4", "9", "6", "7", "2", "9", "9">>,
     <<"-", "4", "2", "9", "4", "9", "6", "7", "2", "9", "5">>}
KeyArgs == {<<"5">>, <<"0", "x", "1", "f">>, <<>>, <<"k">>, <<"5", "k">>}

InitStart ==
    /\ InitSystem
    /\ mpc = "argc"
    /\ argc \in ArgCounts
    /\ argv1 \in IdArgs
    /\ argv3 \in KeyArgs

\* lines 61-69: if (argc != 5) { ...; return EXIT_FAILURE; }
MainArgc ==
    /\ mpc = "argc"
    /\ mpc' = IF argc # 5 THEN "EXIT_FAILURE" ELSE "id"
    /\ UNCHANGED <<argc, argv1, argv3>>

\* lines 71-75: n = (unsigned int) strtol (argv[1], &tinp, 0);
\* if ((*tinp != '\0') || (n >= NUMSMOKERS)) { ...; return EXIT_FAILURE; }
MainId ==
    /\ mpc = "id"
    /\ mpc' = IF TinpNotAtEnd(argv1) \/ SmokerId(argv1) >= NUMSMOKERS
                THEN "EXIT_FAILURE" ELSE "key"
    /\ UNCHANGED <<argc, argv1, argv3>>

\* lines 76-81: key = (unsigned int) strtol (argv[3], &tinp, 0);
\* if (*tinp != '\0') { ...; return EXIT_FAILURE; }
MainKey ==
    /\ mpc = "key"
    /\ mpc' = IF TinpNotAtEnd(argv3) THEN "EXIT_FAILURE" ELSE "semConnect"
    /\ UNCHANGED <<argc, argv1, argv3>>

\* lines 85-96: semConnect, shmemConnect, shmemAttach, each of which may
\* return -1 (return EXIT_FAILURE); after the last one the life cycle
\* waitForIngredients(n) ... starts
MainConnect ==
    /\ mpc \in {"semConnect", "shmemConnect", "shmemAttach"}
    /\ \/ mpc' = "EXIT_FAILURE_IPC"
       \/ mpc' = CASE mpc = "semConnect" -> "shmemConnect"
                   [] mpc = "shmemConnect" -> "shmemAttach"
                   [] mpc = "shmemAttach" -> "running"
    /\ UNCHANGED <<argc, argv1, argv3>>

NextStart ==
    /\ UNCHANGED <<semVars, shVars, logged, smokerVars, agentVars, histVars>>
    /\
       \/ MainArgc
       \/ MainId
       \/ MainKey
       \/ MainConnect

\* one smoker process from its command line to the start of its life cycle
StartSpec == InitStart /\ [][NextStart]_vars

\* --------------------------------------------------- waitForIngredients
\* line 154: semDown (semgid, sh->mutex), ret = true
WfiEnter1(id) ==
    /\ pc[id] = "wfi_enter1"
    /\ CanDown(mutex)
    /\ mutex' = SemDown(mutex)
    /\ ret' = [ret EXCEPT ![id] = TRUE]
    /\ pc' = [pc EXCEPT ![id] = "wfi_state"]
    /\ UNCHANGED <<wait2Ings, waitCigarette, shVars, logged, n, delay,
                   exitCode, agentVars, histVars>>

\* lines 161-162: smokerStat[id] = WAITING_2ING; saveState
WfiState(id) ==
    /\ pc[id] = "wfi_state"
    /\ smokerStat' = [smokerStat EXCEPT ![id] = WAITING_2ING]
    /\ logged' = [fSt EXCEPT !.smokerStat = smokerStat']
    /\ hist' = [hist EXCEPT ![id] = Append(@, WAITING_2ING)]
    /\ pc' = [pc EXCEPT ![id] = "wfi_exit1"]
    /\ UNCHANGED <<semVars, ingredients, nCigarettes, closing, ret, n, delay,
                   exitCode, agentVars, dec, entry, nSignals, nWaits, woken,
                   nRolled, failed>>

\* WfiExit1 with the semUp left out
WfiExit1NoUp(id) ==
    /\ pc[id] = "wfi_exit1"
    /\ pc' = [pc EXCEPT ![id] = "wfi_wait"]
    /\ UNCHANGED <<semVars, shVars, logged, ret, n, delay, exitCode,
                   agentVars, histVars>>

\* line 165: semUp (semgid, sh->mutex)
WfiExit1(id) ==
    /\ pc[id] = "wfi_exit1"
    /\ mutex' = SemUp(mutex)
    /\ pc' = [pc EXCEPT ![id] = "wfi_wait"]
    /\ UNCHANGED <<wait2Ings, waitCigarette, shVars, logged, ret, n, delay,
                   exitCode, agentVars, histVars>>

\* WfiWait that does not block: the semaphore is taken even when it is 0
WfiWaitNoBlock(id) ==
    /\ pc[id] = "wfi_wait"
    /\ wait2Ings' = [wait2Ings EXCEPT ![id] = SemDown(@)]
    /\ nWaits' = [nWaits EXCEPT ![id] = @ + 1]
    /\ pc' = [pc EXCEPT ![id] = "wfi_enter2"]
    /\ UNCHANGED <<mutex, waitCigarette, shVars, logged, ret, n, delay,
                   exitCode, agentVars, dec, hist, entry, nSignals, woken,
                   nRolled, failed>>

\* WfiWait that takes every pending signal at once
WfiWaitDrain(id) ==
    /\ pc[id] = "wfi_wait"
    /\ CanDown(wait2Ings[id])
    /\ wait2Ings' = [wait2Ings EXCEPT ![id] = 0]
    /\ nWaits' = [nWaits EXCEPT ![id] = @ + 1]
    /\ pc' = [pc EXCEPT ![id] = "wfi_enter2"]
    /\ UNCHANGED <<mutex, waitCigarette, shVars, logged, ret, n, delay,
                   exitCode, agentVars, dec, hist, entry, nSignals, woken,
                   nRolled, failed>>

\* line 171: semDown (semgid, sh->wait2Ings[id])
WfiWait(id) ==
    /\ pc[id] = "wfi_wait"
    /\ CanDown(wait2Ings[id])
    /\ wait2Ings' = [wait2Ings EXCEPT ![id] = SemDown(@)]
    /\ nWaits' = [nWaits EXCEPT ![id] = @ + 1]
    /\ pc' = [pc EXCEPT ![id] = "wfi_enter2"]
    /\ UNCHANGED <<mutex, waitCigarette, shVars, logged, ret, n, delay,
                   exitCode, agentVars, dec, hist, entry, nSignals, woken,
                   nRolled, failed>>

\* WfiEnter2 with the semDown left out: the region is entered unguarded
WfiEnter2NoDown(id) ==
    /\ pc[id] = "wfi_enter2"
    /\ entry' = <<fSt>>
    /\ pc' = [pc EXCEPT ![id] = "wfi_check"]
    /\ UNCHANGED <<semVars, shVars, logged, ret, n, delay, exitCode,
                   agentVars, dec, hist, nSignals, nWaits, woken, nRolled,
                   failed>>

\* line 177: semDown (semgid, sh->mutex)
WfiEnter2(id) ==
    /\ pc[id] = "wfi_enter2"
    /\ CanDown(mutex)
    /\ mutex' = SemDown(mutex)
    /\ entry' = <<fSt>>
    /\ pc' = [pc EXCEPT ![id] = "wfi_check"]
    /\ UNCHANGED <<wait2Ings, waitCigarette, shVars, logged, ret, n, delay,
                   exitCode, agentVars, dec, hist, nSignals, nWaits, woken,
                   nRolled, failed>>

\* WfiCheck that sets the status to CLOSING_S but leaves ret true
WfiCheckRetTrue(id) ==
    /\ pc[id] = "wfi_check"
    /\ IF closing
         THEN /\ smokerStat' = [smokerStat EXCEPT ![id] = CLOSING_S]
              /\ hist' = [hist EXCEPT ![id] = Append(@, CLOSING_S)]
              /\ pc' = [pc EXCEPT ![id] = "wfi_save"]
              /\ UNCHANGED n
         ELSE /\ n' = [n EXCEPT ![id] = 0]
              /\ pc' = [pc EXCEPT ![id] = "wfi_loop"]
              /\ UNCHANGED <<smokerStat, hist>>
    /\ UNCHANGED <<semVars, ingredients, nCigarettes, closing, logged, ret,
                   delay, exitCode, agentVars, dec, entry, nSignals, nWaits,
                   woken, nRolled, failed>>

\* WfiCheck with the test inverted: if(!sh->fSt.closing)
WfiCheckInverted(id) ==
    /\ pc[id] = "wfi_check"
    /\ IF ~closing
         THEN /\ ret' = [ret EXCEPT ![id] = FALSE]
              /\ smokerStat' = [smokerStat EXCEPT ![id] = CLOSING_S]
              /\ hist' = [hist EXCEPT ![id] = Append(@, CLOSING_S)]
              /\ pc' = [pc EXCEPT ![id] = "wfi_save"]
              /\ UNCHANGED n
         ELSE /\ n' = [n EXCEPT ![id] = 0]
              /\ pc' = [pc EXCEPT ![id] = "wfi_loop"]
              /\ UNCHANGED <<ret, smokerStat, hist>>
    /\ UNCHANGED <<semVars, ingredients, nCigarettes, closing, logged, delay,
                   exitCode, agentVars, dec, entry, nSignals, nWaits, woken,
                   nRolled, failed>>

\* WfiCheck without the test of sh->fSt.closing: the ingredients are always
\* taken
WfiCheckNoClosing(id) ==
    /\ pc[id] = "wfi_check"
    /\ n' = [n EXCEPT ![id] = 0]
    /\ pc' = [pc EXCEPT ![id] = "wfi_loop"]
    /\ UNCHANGED <<semVars, shVars, logged, ret, delay, exitCode, agentVars,
                   histVars>>

\* WfiCheck without the else: the status is set to CLOSING_S and the
\* ingredients are taken all the same
WfiCheckNoElse(id) ==
    /\ pc[id] = "wfi_check"
    /\ IF closing
         THEN /\ ret' = [ret EXCEPT ![id] = FALSE]
              /\ smokerStat' = [smokerStat EXCEPT ![id] = CLOSING_S]
              /\ hist' = [hist EXCEPT ![id] = Append(@, CLOSING_S)]
         ELSE UNCHANGED <<ret, smokerStat, hist>>
    /\ n' = [n EXCEPT ![id] = 0]
    /\ pc' = [pc EXCEPT ![id] = "wfi_loop"]
    /\ UNCHANGED <<semVars, ingredients, nCigarettes, closing, logged, delay,
                   exitCode, agentVars, dec, entry, nSignals, nWaits, woken,
                   nRolled, failed>>

\* lines 183-189: if(sh->fSt.closing){ret=false; smokerStat[id]=CLOSING_S;}
\* else the for loop starts with n=0
WfiCheck(id) ==
    /\ pc[id] = "wfi_check"
    /\ IF closing
         THEN /\ ret' = [ret EXCEPT ![id] = FALSE]
              /\ smokerStat' = [smokerStat EXCEPT ![id] = CLOSING_S]
              /\ hist' = [hist EXCEPT ![id] = Append(@, CLOSING_S)]
              /\ pc' = [pc EXCEPT ![id] = "wfi_save"]
              /\ UNCHANGED n
         ELSE /\ n' = [n EXCEPT ![id] = 0]
              /\ pc' = [pc EXCEPT ![id] = "wfi_loop"]
              /\ UNCHANGED <<ret, smokerStat, hist>>
    /\ UNCHANGED <<semVars, ingredients, nCigarettes, closing, logged, delay,
                   exitCode, agentVars, dec, entry, nSignals, nWaits, woken,
                   nRolled, failed>>

\* WfiLoop without the test id!=n: all three kinds are decremented
WfiLoopAll(id) ==
    /\ pc[id] = "wfi_loop"
    /\ n[id] < NUMINGREDIENTS
    /\ ingredients' = [ingredients EXCEPT ![n[id]] = @ - 1]
    /\ dec' = [dec EXCEPT ![id][n[id]] = @ + 1]
    /\ n' = [n EXCEPT ![id] = @ + 1]
    /\ pc' = [pc EXCEPT ![id] =
                IF n[id] + 1 < NUMINGREDIENTS THEN "wfi_loop" ELSE "wfi_save"]
    /\ UNCHANGED <<semVars, smokerStat, nCigarettes, closing, logged, ret,
                   delay, exitCode, agentVars, hist, entry, nSignals, nWaits,
                   woken, nRolled, failed>>

\* WfiLoop that leaves the loop after its first decrement
WfiLoopBreak(id) ==
    /\ pc[id] = "wfi_loop"
    /\ n[id] < NUMINGREDIENTS
    /\ IF id # n[id]
         THEN /\ ingredients' = [ingredients EXCEPT ![n[id]] = @ - 1]
              /\ dec' = [dec EXCEPT ![id][n[id]] = @ + 1]
         ELSE UNCHANGED <<ingredients, dec>>
    /\ n' = [n EXCEPT ![id] = @ + 1]
    /\ pc' = [pc EXCEPT ![id] =
                IF n[id] + 1 < NUMINGREDIENTS /\ id = n[id]
                  THEN "wfi_loop" ELSE "wfi_save"]
    /\ UNCHANGED <<semVars, smokerStat, nCigarettes, closing, logged, ret,
                   delay, exitCode, agentVars, hist, entry, nSignals, nWaits,
                   woken, nRolled, failed>>

\* WfiLoop with the test inverted (id==n): the smoker's own kind is taken
WfiLoopOwn(id) ==
    /\ pc[id] = "wfi_loop"
    /\ n[id] < NUMINGREDIENTS
    /\ IF id = n[id]
         THEN /\ ingredients' = [ingredients EXCEPT ![n[id]] = @ - 1]
              /\ dec' = [dec EXCEPT ![id][n[id]] = @ + 1]
         ELSE UNCHANGED <<ingredients, dec>>
    /\ n' = [n EXCEPT ![id] = @ + 1]
    /\ pc' = [pc EXCEPT ![id] =
                IF n[id] + 1 < NUMINGREDIENTS THEN "wfi_loop" ELSE "wfi_save"]
    /\ UNCHANGED <<semVars, smokerStat, nCigarettes, closing, logged, ret,
                   delay, exitCode, agentVars, hist, entry, nSignals, nWaits,
                   woken, nRolled, failed>>

\* lines 189-192: one iteration: if(id!=n) ingredients[n]-=1; n++
\* and the loop ends when n reaches 3
WfiLoop(id) ==
    /\ pc[id] = "wfi_loop"
    /\ n[id] < NUMINGREDIENTS
    /\ IF id # n[id]
         THEN /\ ingredients' = [ingredients EXCEPT ![n[id]] = @ - 1]
              /\ dec' = [dec EXCEPT ![id][n[id]] = @ + 1]
         ELSE UNCHANGED <<ingredients, dec>>
    /\ n' = [n EXCEPT ![id] = @ + 1]
    /\ pc' = [pc EXCEPT ![id] =
                IF n[id] + 1 < NUMINGREDIENTS THEN "wfi_loop" ELSE "wfi_save"]
    /\ UNCHANGED <<semVars, smokerStat, nCigarettes, closing, logged, ret,
                   delay, exitCode, agentVars, hist, entry, nSignals, nWaits,
                   woken, nRolled, failed>>

\* WfiSave that persists nothing
WfiSaveNone(id) ==
    /\ pc[id] = "wfi_save"
    /\ pc' = [pc EXCEPT ![id] = "wfi_exit2"]
    /\ UNCHANGED <<semVars, shVars, logged, ret, n, delay, exitCode,
                   agentVars, histVars>>

\* line 194: saveState
WfiSave(id) ==
    /\ pc[id] = "wfi_save"
    /\ logged' = fSt
    /\ pc' = [pc EXCEPT ![id] = "wfi_exit2"]
    /\ UNCHANGED <<semVars, shVars, ret, n, delay, exitCode, agentVars,
                   histVars>>

\* lines 197-202 and 103: semUp (semgid, sh->mutex); return ret; and main's
\* while(waitForIngredients(n)) goes on to rollingCigarette or leaves the loop
WfiExit2(id) ==
    /\ pc[id] = "wfi_exit2"
    /\ mutex' = SemUp(mutex)
    /\ entry' = <<>>
    /\ pc' = [pc EXCEPT ![id] = IF ret[id] THEN "roll_enter" ELSE "detach"]
    /\ UNCHANGED <<wait2Ings, waitCigarette, shVars, logged, ret, n, delay,
                   exitCode, agentVars, dec, hist, nSignals, nWaits, woken,
                   nRolled, failed>>

\* ------------------------------------------------------------------ main
\* lines 109-114: shmemDettach (sh); return EXIT_SUCCESS
MainExit(id) ==
    /\ pc[id] = "detach"
    /\ exitCode' = [exitCode EXCEPT ![id] = "EXIT_SUCCESS"]
    /\ pc' = [pc EXCEPT ![id] = "exited"]
    /\ UNCHANGED <<semVars, shVars, logged, ret, n, delay, agentVars,
                   histVars>>

\* ------------------------------------------------------ rollingCigarette
\* lines 215-217: rollingTime = 100.0 + normalRand(30.0);
\* semDown (semgid, sh->mutex)
RollEnter(id) ==
    /\ pc[id] = "roll_enter"
    /\ CanDown(mutex)
    /\ mutex' = SemDown(mutex)
    /\ \E rollingTime \in DelayValues :
           delay' = [delay EXCEPT ![id] = rollingTime]
    /\ pc' = [pc EXCEPT ![id] = "roll_state"]
    /\ UNCHANGED <<wait2Ings, waitCigarette, shVars, logged, ret, n, exitCode,
                   agentVars, histVars>>

\* lines 224-225: smokerStat[id] = ROLLING; saveState
RollState(id) ==
    /\ pc[id] = "roll_state"
    /\ smokerStat' = [smokerStat EXCEPT ![id] = ROLLING]
    /\ logged' = [fSt EXCEPT !.smokerStat = smokerStat']
    /\ hist' = [hist EXCEPT ![id] = Append(@, ROLLING)]
    /\ pc' = [pc EXCEPT ![id] = "roll_sleep"]
    /\ UNCHANGED <<semVars, ingredients, nCigarettes, closing, ret, n, delay,
                   exitCode, agentVars, dec, entry, nSignals, nWaits, woken,
                   nRolled, failed>>

\* line 228: if(rollingTime>0.0) usleep(rollingTime);
\* the process is at this statement for as long as the delay lasts (no time
\* at all when rollingTime is not positive) and then goes on
RollSleep(id) ==
    /\ pc[id] = "roll_sleep"
    /\ delay' = [delay EXCEPT ![id] = 0]
    /\ pc' = [pc EXCEPT ![id] = "roll_exit"]
    /\ UNCHANGED <<semVars, shVars, logged, ret, n, exitCode, agentVars,
                   histVars>>

\* line 231: semUp (semgid, sh->mutex)
RollExit(id) ==
    /\ pc[id] = "roll_exit"
    /\ mutex' = SemUp(mutex)
    /\ pc' = [pc EXCEPT ![id] = "roll_signal"]
    /\ UNCHANGED <<wait2Ings, waitCigarette, shVars, logged, ret, n, delay,
                   exitCode, agentVars, histVars>>

\* RollSignal that signals the ingredients semaphore of the next smoker
RollSignalOther(id) ==
    /\ pc[id] = "roll_signal"
    /\ wait2Ings' = [wait2Ings EXCEPT ![(id + 1) % NUMSMOKERS] = SemUp(@)]
    /\ pc' = [pc EXCEPT ![id] = "smoke_enter"]
    /\ nRolled' = [nRolled EXCEPT ![id] = @ + 1]
    /\ UNCHANGED <<mutex, waitCigarette, shVars, logged, ret, n, delay,
                   exitCode, agentVars, dec, hist, entry, nSignals, nWaits,
                   woken, failed>>

\* RollSignal that signals twice
RollSignalTwice(id) ==
    /\ pc[id] = "roll_signal"
    /\ waitCigarette' = SemUp(SemUp(waitCigarette))
    /\ pc' = [pc EXCEPT ![id] = "smoke_enter"]
    /\ nRolled' = [nRolled EXCEPT ![id] = @ + 2]
    /\ UNCHANGED <<mutex, wait2Ings, shVars, logged, ret, n, delay, exitCode,
                   agentVars, dec, hist, entry, nSignals, nWaits, woken,
                   failed>>

\* line 237: semUp (semgid, sh->waitCigarette)
RollSignal(id) ==
    /\ pc[id] = "roll_signal"
    /\ waitCigarette' = SemUp(waitCigarette)
    /\ pc' = [pc EXCEPT ![id] = "smoke_enter"]
    /\ nRolled' = [nRolled EXCEPT ![id] = @ + 1]
    /\ UNCHANGED <<mutex, wait2Ings, shVars, logged, ret, n, delay, exitCode,
                   agentVars, dec, hist, entry, nSignals, nWaits, woken,
                   failed>>

\* ----------------------------------------------------------------- smoke
\* line 255: semDown (semgid, sh->mutex)
SmokeEnter(id) ==
    /\ pc[id] = "smoke_enter"
    /\ CanDown(mutex)
    /\ mutex' = SemDown(mutex)
    /\ pc' = [pc EXCEPT ![id] = "smoke_state"]
    /\ UNCHANGED <<wait2Ings, waitCigarette, shVars, logged, ret, n, delay,
                   exitCode, agentVars, histVars>>

\* SmokeState that counts the cigarette as well, which smoke counts again
\* after the delay
SmokeStateCounting(id) ==
    /\ pc[id] = "smoke_state"
    /\ smokerStat' = [smokerStat EXCEPT ![id] = SMOKING]
    /\ nCigarettes' = [nCigarettes EXCEPT ![id] = @ + 1]
    /\ logged' = [fSt EXCEPT !.smokerStat = smokerStat']
    /\ hist' = [hist EXCEPT ![id] = Append(@, SMOKING)]
    /\ \E smokingTime \in DelayValues :
           delay' = [delay EXCEPT ![id] = smokingTime]
    /\ pc' = [pc EXCEPT ![id] = "smoke_sleep"]
    /\ UNCHANGED <<semVars, ingredients, closing, ret, n, exitCode, agentVars,
                   dec, entry, nSignals, nWaits, woken, nRolled, failed>>

\* lines 262-266: smokerStat[id] = SMOKING; saveState;
\* smokingTime = 100.0 + normalRand(30.0)
SmokeState(id) ==
    /\ pc[id] = "smoke_state"
    /\ smokerStat' = [smokerStat EXCEPT ![id] = SMOKING]
    /\ logged' = [fSt EXCEPT !.smokerStat = smokerStat']
    /\ hist' = [hist EXCEPT ![id] = Append(@, SMOKING)]
    /\ \E smokingTime \in DelayValues :
           delay' = [delay EXCEPT ![id] = smokingTime]
    /\ pc' = [pc EXCEPT ![id] = "smoke_sleep"]
    /\ UNCHANGED <<semVars, ingredients, nCigarettes, closing, ret, n,
                   exitCode, agentVars, dec, entry, nSignals, nWaits, woken,
                   nRolled, failed>>

\* SmokeSleep with the mutex released for the time of the delay
SmokeSleepReleased(id) ==
    /\ pc[id] = "smoke_sleep"
    /\ mutex' = SemUp(mutex)
    /\ delay' = [delay EXCEPT ![id] = 0]
    /\ pc' = [pc EXCEPT ![id] = "smoke_count"]
    /\ UNCHANGED <<wait2Ings, waitCigarette, shVars, logged, ret, n,
                   exitCode, agentVars, histVars>>

\* line 267: if(smokingTime>0.0) usleep(smokingTime);
SmokeSleep(id) ==
    /\ pc[id] = "smoke_sleep"
    /\ delay' = [delay EXCEPT ![id] = 0]
    /\ pc' = [pc EXCEPT ![id] = "smoke_count"]
    /\ UNCHANGED <<semVars, shVars, logged, ret, n, exitCode, agentVars,
                   histVars>>

\* SmokeCount that counts two cigarettes
SmokeCountTwice(id) ==
    /\ pc[id] = "smoke_count"
    /\ nCigarettes' = [nCigarettes EXCEPT ![id] = @ + 2]
    /\ logged' = [fSt EXCEPT !.nCigarettes = nCigarettes']
    /\ hist' = [hist EXCEPT ![id] = <<>>]
    /\ pc' = [pc EXCEPT ![id] = "smoke_exit"]
    /\ UNCHANGED <<semVars, ingredients, smokerStat, closing, ret, n, delay,
                   exitCode, agentVars, dec, entry, nSignals, nWaits, woken,
                   nRolled, failed>>

\* lines 270-271: nCigarettes[id]+=1; saveState
SmokeCount(id) ==
    /\ pc[id] = "smoke_count"
    /\ nCigarettes' = [nCigarettes EXCEPT ![id] = @ + 1]
    /\ logged' = [fSt EXCEPT !.nCigarettes = nCigarettes']
    /\ hist' = [hist EXCEPT ![id] = <<>>]
    /\ pc' = [pc EXCEPT ![id] = "smoke_exit"]
    /\ UNCHANGED <<semVars, ingredients, smokerStat, closing, ret, n, delay,
                   exitCode, agentVars, dec, entry, nSignals, nWaits, woken,
                   nRolled, failed>>

\* line 274: semUp (semgid, sh->mutex); back to main's while
SmokeExit(id) ==
    /\ pc[id] = "smoke_exit"
    /\ mutex' = SemUp(mutex)
    /\ pc' = [pc EXCEPT ![id] = "wfi_enter1"]
    /\ UNCHANGED <<wait2Ings, waitCigarette, shVars, logged, ret, n, delay,
                   exitCode, agentVars, histVars>>

\* every step smoker id can take
Smoker(id) ==
  /\ UNCHANGED startVars
  /\
    \/ WfiEnter1(id) \/ WfiState(id) \/ WfiExit1(id) \/ WfiWait(id)
    \/ WfiEnter2(id) \/ WfiCheck(id) \/ WfiLoop(id) \/ WfiSave(id)
    \/ WfiExit2(id) \/ MainExit(id)
    \/ RollEnter(id) \/ RollState(id) \/ RollSleep(id) \/ RollExit(id)
    \/ RollSignal(id)
    \/ SmokeEnter(id) \/ SmokeState(id) \/ SmokeSleep(id) \/ SmokeCount(id)
    \/ SmokeExit(id)

\* ------------------------------------------- failing semaphore operations
\* the positions at which a smoker calls semDown or semUp
SemOpPcs ==
    {"wfi_enter1", "wfi_exit1", "wfi_wait", "wfi_enter2", "wfi_exit2",
     "roll_enter", "roll_exit", "roll_signal", "smoke_enter", "smoke_exit"}

\* a failed operation that is recorded but tried again
SemFailRetry(id) ==
    /\ pc[id] \in SemOpPcs
    /\ failed' = failed \cup {id}
    /\ UNCHANGED <<semVars, shVars, logged, smokerVars, agentVars, startVars,
                   dec, hist, entry, nSignals, nWaits, woken, nRolled>>

\* if (semDown (...) == -1) / if (semUp (...) == -1)
\*   { perror (...); exit (EXIT_FAILURE); }
\* (lines 154-157, 165-168, 171-174, 177-180, 197-200, 217-220, 231-234,
\* 237-240, 255-258, 274-277): the call returns -1 without having changed
\* the semaphore and the process exits
SemFail(id) ==
    /\ pc[id] \in SemOpPcs
    /\ pc' = [pc EXCEPT ![id] = "exited"]
    /\ exitCode' = [exitCode EXCEPT ![id] = "EXIT_FAILURE"]
    /\ failed' = failed \cup {id}
    /\ UNCHANGED <<semVars, shVars, logged, ret, n, delay, agentVars,
                   startVars, dec, hist, entry, nSignals, nWaits, woken,
                   nRolled>>

\* lines 109-112: if (shmemDettach (sh) == -1) { ...; return EXIT_FAILURE; }
MainDetachFail(id) ==
    /\ pc[id] = "detach"
    /\ exitCode' = [exitCode EXCEPT ![id] = "EXIT_FAILURE"]
    /\ pc' = [pc EXCEPT ![id] = "exited"]
    /\ UNCHANGED <<semVars, shVars, logged, ret, n, delay, agentVars,
                   histVars, startVars>>

\* ----------------------------------------------------------------- agent
\* the agent enters the critical region
AgentEnter ==
    /\ apc = "idle"
    /\ CanDown(mutex)
    /\ mutex' = SemDown(mutex)
    /\ apc' = "cs"
    /\ UNCHANGED <<wait2Ings, waitCigarette, shVars, logged, smokerVars,
                   target, supplied, histVars>>

\* the agent adds one unit of each of the two ingredients smoker k lacks
AgentPrepare(k, max) ==
    /\ apc = "cs"
    /\ ~closing
    /\ supplied < max
    /\ ingredients' = [j \in Ingredients |->
                          IF j # k THEN ingredients[j] + 1 ELSE ingredients[j]]
    /\ logged' = [fSt EXCEPT !.ingredients = ingredients']
    /\ target' = {k}
    /\ supplied' = supplied + 1
    /\ apc' = "exit"
    /\ UNCHANGED <<semVars, smokerStat, nCigarettes, closing, smokerVars,
                   histVars>>

\* the agent sets the closing flag; every smoker is to be woken
AgentClose ==
    /\ apc = "cs"
    /\ ~closing
    /\ closing' = TRUE
    /\ logged' = [fSt EXCEPT !.closing = TRUE]
    /\ target' = Smokers
    /\ apc' = "exit"
    /\ UNCHANGED <<semVars, ingredients, smokerStat, nCigarettes, smokerVars,
                   supplied, histVars>>

\* the agent leaves the critical region
AgentExit ==
    /\ apc = "exit"
    /\ mutex' = SemUp(mutex)
    /\ apc' = "signal"
    /\ UNCHANGED <<wait2Ings, waitCigarette, shVars, logged, smokerVars,
                   target, supplied, histVars>>

\* the agent signals wait2Ings[k] of a smoker it has to wake
AgentSignal(k) ==
    /\ apc = "signal"
    /\ k \in target
    /\ wait2Ings' = [wait2Ings EXCEPT ![k] = SemUp(@)]
    /\ nSignals' = [nSignals EXCEPT ![k] = @ + 1]
    /\ woken' = IF closing THEN woken \cup {k} ELSE woken
    /\ target' = target \ {k}
    /\ apc' = IF target' # {} THEN "signal"
              ELSE IF closing THEN "done" ELSE "idle"
    /\ UNCHANGED <<mutex, waitCigarette, shVars, logged, smokerVars, supplied,
                   dec, hist, entry, nWaits, nRolled, failed>>

\* the agent consumes a cigarette notification
AgentWaitCigarette ==
    /\ apc = "idle"
    /\ CanDown(waitCigarette)
    /\ waitCigarette' = SemDown(waitCigarette)
    /\ UNCHANGED <<mutex, wait2Ings, shVars, logged, smokerVars, agentVars,
                   histVars>>

\* a shutdown authority that fails its duty: smoker k is left unsignalled
AgentSkip(k) ==
    /\ apc = "signal"
    /\ closing
    /\ k \in target
    /\ target' = target \ {k}
    /\ apc' = IF target' # {} THEN "signal" ELSE "done"
    /\ UNCHANGED <<semVars, shVars, logged, smokerVars, supplied, histVars>>

\* every step of an agent that supplies at most max pairs of ingredients
Agent(max) ==
  /\ UNCHANGED startVars
  /\
    \/ AgentEnter
    \/ \E k \in Smokers : AgentPrepare(k, max)
    \/ AgentClose
    \/ AgentExit
    \/ \E k \in Smokers : AgentSignal(k)
    \/ AgentWaitCigarette

\* -------------------------------------------------------- specifications
Next ==
    \/ \E id \in Smokers : Smoker(id)
    \/ Agent(MaxSupply)

Spec == Init /\ [][Next]_vars

\* the system with a shutdown authority that may leave smokers unsignalled
NextNoWake ==
    \/ \E id \in Smokers : Smoker(id)
    \/ Agent(MaxSupplyNoWake)
    \/ \E k \in Smokers : AgentSkip(k) /\ UNCHANGED startVars

NoWakeSpec == Init /\ [][NextNoWake]_vars

\* the system in which every smoker process that can run is eventually
\* scheduled (the agent may stop at any point)
NextFair ==
    \/ \E id \in Smokers : Smoker(id)
    \/ Agent(MaxSupplyFair)

FairSpec == Init /\ [][NextFair]_vars
                 /\ \A id \in Smokers : WF_vars(Smoker(id))

\* the agent, once inside its critical region, writes and leaves it
AgentLeave ==
    /\ UNCHANGED startVars
    /\
       \/ \E k \in Smokers : AgentPrepare(k, MaxSupplyFair)
       \/ AgentClose
       \/ AgentExit

\* the system in which, besides, the agent does not stop inside its critical
\* region
FairAgentSpec == Init /\ [][NextFair]_vars
                      /\ \A id \in Smokers : WF_vars(Smoker(id))
                      /\ WF_vars(AgentLeave)

\* Scenario 1: the agent supplies one pair of ingredients, signals the
\* smoker that lacks them, consumes its notification and never sets closing
ScenarioSupplies == 1

ScenarioAgent ==
    /\ UNCHANGED startVars
    /\
       \/ supplied < ScenarioSupplies /\ AgentEnter
       \/ \E k \in Smokers : AgentPrepare(k, ScenarioSupplies)
       \/ AgentExit
       \/ \E k \in Smokers : AgentSignal(k)
       \/ AgentWaitCigarette

NextScenario ==
    \/ \E id \in Smokers : Smoker(id)
    \/ ScenarioAgent

ScenarioSpec == Init /\ [][NextScenario]_vars
                     /\ \A id \in Smokers : WF_vars(Smoker(id))
                     /\ WF_vars(ScenarioAgent)

\* the system in which any semaphore operation of a smoker, and the final
\* shmemDettach, may fail
NextFail ==
    \/ \E id \in Smokers : Smoker(id)
    \/ \E id \in Smokers : SemFail(id)
    \/ \E id \in Smokers : MainDetachFail(id)
    \/ Agent(MaxSupplyFail)

FailSpec == Init /\ [][NextFail]_vars

\* ------------------------------------------------------------ properties
\* the two ingredient kinds smoker i does not hold
Others(i) == Ingredients \ {i}

\* the number of actors inside a critical region of the mutex
NInCS == Cardinality({i \in Smokers : InCS(i)}) + (IF AgentInCS THEN 1 ELSE 0)

\* C1: mutual exclusion.  At most one actor (a smoker in any of its four
\* critical regions, or the agent) is between a completed semDown(mutex) and
\* the matching semUp(mutex), and the mutex is 0 exactly while one is.
C1_MutualExclusion ==
    /\ NInCS <= 1
    /\ mutex = 1 - NInCS

\* C1 witness: one smoker is inside the critical region of smoke while a
\* second one waits to enter the one of rollingCigarette, a third one has
\* been woken and waits to enter the second one of waitForIngredients, and
\* the agent has finished
C1_Witness ==
    \E i, j, k \in Smokers :
        /\ pc[i] = "smoke_sleep"
        /\ pc[j] = "roll_enter"
        /\ pc[k] = "wfi_enter2"
        /\ apc = "done"

\* C2: no ingredient count is ever negative.
C2_IngredientsNonNegative ==
    \A k \in Ingredients : ingredients[k] >= 0

\* C2 witness: a smoker has just consumed the last unit of both of the
\* ingredients it lacks
C2_Witness ==
    \E i \in Smokers :
        /\ pc[i] = "wfi_save"
        /\ ret[i]
        /\ \A k \in Others(i) : dec[i][k] = 1 /\ ingredients[k] = 0

\* every smoker has terminated through the closing handshake
AllClosed ==
    \A i \in Smokers :
        /\ smokerStat[i] = CLOSING_S
        /\ ~ret[i]
        /\ pc[i] = "exited"
        /\ exitCode[i] = "EXIT_SUCCESS"

\* C3: shutdown liveness.  Once closing is set and every wait2Ings[i] has
\* been signalled after that, every smoker, wherever it was at that moment,
\* eventually sets its status to CLOSING_S, has waitForIngredients return
\* false, leaves main's loop and exits with success; and from the moment its
\* status is CLOSING_S a smoker decrements no ingredient and its status does
\* not change again.
C3_ShutdownLiveness ==
    /\ (closing /\ woken = Smokers) ~> AllClosed
    /\ [][\A i \in Smokers :
              smokerStat[i] = CLOSING_S =>
                  /\ smokerStat'[i] = CLOSING_S
                  /\ dec'[i] = dec[i]
                  /\ (pc'[i] # pc[i] => ingredients' = ingredients)]_vars

\* C3 witness: closing is set and every smoker has been signalled after it,
\* while one smoker is in the middle of rolling, one is still blocked on its
\* semaphore's wait and one has already exited
C3_Witness ==
    /\ closing
    /\ woken = Smokers
    /\ \E i, j, k \in Smokers :
          /\ pc[i] = "roll_sleep"
          /\ pc[j] = "wfi_wait"
          /\ pc[k] = "exited" /\ smokerStat[k] = CLOSING_S

\* C4: smoker i never decrements ingredients[i]; its decrements of the two
\* other kinds are made one unit each inside the second critical region of
\* waitForIngredients, so that outside the for loop (in every state another
\* actor can see) it has decremented both kinds equally often; when the
\* region's body is done, ingredients[i] is what the region found and the two
\* other counts are both one lower (ingredients taken) or both unchanged.
C4_DecrementsBothOthers ==
    \A i \in Smokers :
        /\ dec[i][i] = 0
        /\ \A j, k \in Others(i) :
              /\ pc[i] # "wfi_loop" => dec[i][j] = dec[i][k]
              /\ pc[i] = "wfi_loop" =>
                    /\ mutex = 0
                    /\ dec[i][j] - dec[i][k] \in {-1, 0, 1}
        /\ pc[i] \in {"wfi_loop", "wfi_save", "wfi_exit2"} =>
              ingredients[i] = entry[1].ingredients[i]
        /\ pc[i] \in {"wfi_save", "wfi_exit2"} =>
              \E d \in {0, 1} :
                  \A j \in Others(i) :
                      ingredients[j] = entry[1].ingredients[j] - d

\* C4 witness: smoker i has finished the loop with both other kinds
\* decremented while a unit of its own kind, supplied for another smoker,
\* is in the inventory
C4_Witness ==
    \E i \in Smokers :
        /\ pc[i] = "wfi_save"
        /\ ingredients[i] = 1
        /\ \A j \in Others(i) :
              dec[i][j] = 1 /\ ingredients[j] = entry[1].ingredients[j] - 1

\* smoker i is in a cycle whose cigarette is not counted yet: between the
\* decrement of the ingredients and the increment of nCigarettes[i]
InCycle(i) ==
    \/ pc[i] \in {"wfi_save", "wfi_exit2"} /\ ret[i]
    \/ pc[i] \in {"roll_enter", "roll_state", "roll_sleep", "roll_exit",
                   "roll_signal", "smoke_enter", "smoke_state", "smoke_sleep",
                   "smoke_count"}

\* C5: nCigarettes[i] changes only by smoker i's increment in smoke, by
\* exactly 1, made with the status SMOKING after the statuses ROLLING and
\* then SMOKING were written since the last increment; and it counts the
\* completed cycles: it equals the number of times smoker i took its
\* ingredients, less the cycle in progress.
C5_CigaretteCount ==
    /\ [](\A i \in Smokers :
             pc[i] # "wfi_loop" =>
                 \A j \in Others(i) :
                     nCigarettes[i] = dec[i][j] - (IF InCycle(i) THEN 1 ELSE 0))
    /\ [][\A i \in Smokers :
              nCigarettes'[i] # nCigarettes[i] =>
                  /\ nCigarettes'[i] = nCigarettes[i] + 1
                  /\ SmokeCount(i)
                  /\ smokerStat[i] = SMOKING
                  /\ hist[i] = <<WAITING_2ING, ROLLING, SMOKING>>]_vars

\* C5 witness: a smoker is about to count its second cigarette
C5_Witness ==
    \E i \in Smokers :
        /\ pc[i] = "smoke_count"
        /\ nCigarettes[i] = 1
        /\ hist[i] = <<WAITING_2ING, ROLLING, SMOKING>>

\* C6: during the rolling delay the smoker does not hold the mutex: while a
\* smoker is in the delay of rollingCigarette, the mutex is free for another
\* actor to take, or another actor is inside its own critical region.
C6_RollingDelayOutsideMutex ==
    \A i \in Smokers :
        (pc[i] = "roll_sleep" /\ delay[i] > 0) =>
            \/ CanDown(mutex)
            \/ AgentInCS
            \/ \E j \in Smokers \ {i} : InCS(j)

\* the status changes a smoker may make
StatusSteps ==
    {<<WAITING_2ING, ROLLING>>, <<ROLLING, SMOKING>>,
     <<SMOKING, WAITING_2ING>>, <<WAITING_2ING, CLOSING_S>>}

\* C7: smokerStat[i] changes only by steps of smoker i and only along
\* WAITING_2ING -> ROLLING -> SMOKING -> WAITING_2ING or
\* WAITING_2ING -> CLOSING_S; once it is CLOSING_S no step of smoker i writes
\* the shared region.  (The status is WAITING_2ING when the smoker starts.)
C7_StatusTransitions ==
    [][\A i \in Smokers :
          /\ smokerStat'[i] # smokerStat[i] =>
                /\ <<smokerStat[i], smokerStat'[i]>> \in StatusSteps
                /\ pc'[i] # pc[i]
          /\ (smokerStat[i] = CLOSING_S /\ pc'[i] # pc[i]) =>
                UNCHANGED shVars]_vars

\* C7 witness: one smoker has gone round the cycle and waits again, another
\* has reached CLOSING_S and exited
C7_Witness ==
    \E i, j \in Smokers :
        /\ nCigarettes[i] = 1
        /\ smokerStat[i] = WAITING_2ING
        /\ pc[i] = "wfi_wait"
        /\ smokerStat[j] = CLOSING_S
        /\ pc[j] = "exited"

\* C8: when the body of the second critical region of waitForIngredients is
\* done, exactly one of two things has happened to what the region found on
\* entry: closing was set, and then the status is CLOSING_S, no ingredient
\* count has changed and ret is false; or closing was not set, and then the
\* two other kinds are one lower, the smoker's own kind and its status are
\* unchanged and ret is true.  closing is read with the mutex held.
C8_WakeOutcome ==
    \A i \in Smokers :
        /\ pc[i] = "wfi_check" => mutex = 0 /\ entry[1].closing = closing
        /\ pc[i] \in {"wfi_save", "wfi_exit2"} =>
              IF entry[1].closing
                THEN /\ smokerStat[i] = CLOSING_S
                     /\ ingredients = entry[1].ingredients
                     /\ ret[i] = FALSE
                ELSE /\ smokerStat[i] = entry[1].smokerStat[i]
                     /\ ingredients =
                            [k \in Ingredients |->
                                IF k \in Others(i)
                                  THEN entry[1].ingredients[k] - 1
                                  ELSE entry[1].ingredients[k]]
                     /\ ret[i] = TRUE

\* C8 witness: a smoker woken by the closing signal leaves the region with
\* ret false and supplied ingredients untouched, after another smoker took
\* its ingredients in a region that found closing unset
C8_Witness ==
    \E i, j \in Smokers :
        /\ pc[i] = "wfi_exit2"
        /\ ~ret[i]
        /\ \E k \in Ingredients : ingredients[k] > 0
        /\ \A k \in Others(j) : dec[j][k] = 1

\* smoker i has taken both ingredients of a cycle whose cigarette is not
\* counted yet
TakenForCycle(i) ==
    \A j \in Others(i) : dec[i][j] = nCigarettes[i] + 1

\* C9 as claimed: the decrement and the status change that reflects it are
\* made in one critical region, so no state in which the mutex is free shows
\* the ingredients of the current cycle taken while the status is still
\* WAITING_2ING.
C9_TakenImpliesStatusChanged ==
    \A i \in Smokers :
        (CanDown(mutex) /\ TakenForCycle(i)) => smokerStat[i] # WAITING_2ING

\* C9 as amended: the two decrements are made in one critical region, which
\* leaves the status WAITING_2ING; the status change that reflects them is
\* made in the next critical region of the smoker, the one of
\* rollingCigarette.  In every state in which the mutex is free, smoker i has
\* taken both ingredients of the current cycle or neither; it has taken
\* them whenever its status is ROLLING; and if it has taken them while its
\* status is still WAITING_2ING, it is between the semUp that ends
\* waitForIngredients and the semDown that starts rollingCigarette.
C9_TakenThenRolling ==
    \A i \in Smokers :
        CanDown(mutex) =>
            /\ \A j, k \in Others(i) : dec[i][j] = dec[i][k]
            /\ smokerStat[i] = ROLLING => TakenForCycle(i)
            /\ (TakenForCycle(i) /\ smokerStat[i] # ROLLING) =>
                  (smokerStat[i] = WAITING_2ING /\ pc[i] = "roll_enter")

\* C9 witness: the mutex is free, smoker i has taken its two ingredients and
\* its status is still WAITING_2ING, while the agent is idle
C9_Witness ==
    \E i \in Smokers :
        /\ CanDown(mutex)
        /\ apc = "idle"
        /\ pc[i] = "roll_enter"
        /\ TakenForCycle(i)
        /\ smokerStat[i] = WAITING_2ING
        /\ \A j \in Others(i) : ingredients[j] = 0

\* C10: a smoker whose wait2Ings semaphore has never been signalled has not
\* passed the semDown of line 171: it is at or before that wait, its status
\* is WAITING_2ING, it has decremented no ingredient and has not exited,
\* whether closing is set or not.
C10_NoSignalNoProgress ==
    \A i \in Smokers :
        nSignals[i] = 0 =>
            /\ pc[i] \in {"wfi_enter1", "wfi_state", "wfi_exit1", "wfi_wait"}
            /\ smokerStat[i] = WAITING_2ING
            /\ \A k \in Ingredients : dec[i][k] = 0
            /\ nWaits[i] = 0
            /\ exitCode[i] = "none"

\* C10 witness: closing is set, the shutdown authority has finished without
\* ever signalling smoker i, which is blocked on its semaphore, while
\* another smoker, which was signalled, has exited
C10_Witness ==
    \E i, j \in Smokers :
        /\ closing
        /\ apc = "done"
        /\ nSignals[i] = 0
        /\ wait2Ings[i] = 0
        /\ pc[i] = "wfi_wait"
        /\ pc[j] = "exited"

\* the whole of s is an integer literal: strtol found at least one digit and
\* stopped at the end of the string
HasNumber(s) == Len(s) > 0 /\ Strtol(s).end = Len(s) + 1

\* s is an integer in the range [0, NUMSMOKERS)
IdInRange(s) ==
    /\ HasNumber(s)
    /\ LET r == Strtol(s)
       IN  /\ r.mag[2] = 0 /\ r.mag[3] = 0 /\ r.mag[4] = 0
           /\ r.mag[1] < NUMSMOKERS
           /\ r.neg => r.mag[1] = 0

\* C11: a process started with a wrong number of arguments, with a smoker
\* identification that is not an integer in [0, NUMSMOKERS) or with a
\* malformed key never gets past the validation of main: it is still
\* validating or has returned EXIT_FAILURE, and it has connected to no
\* semaphore set and no shared region.  (Violated: an identification such
\* as 4294967296, which the cast of line 71 truncates to 0, or the empty
\* string, for which strtol returns 0 with tinp at the final '\0', is
\* accepted and the process connects as smoker 0.)
C11_BadStartRejected ==
    ~(argc = 5 /\ IdInRange(argv1) /\ HasNumber(argv3)) =>
        mpc \in {"argc", "id", "key", "EXIT_FAILURE"}
\* C12: a smoker whose semaphore operation fails exits at once with
\* EXIT_FAILURE: the failing step changes no semaphore, no field of
\* sh->fSt and writes no log line, and from then on the smoker takes no step
\* at all (no retry, no later write, no later semaphore operation).
C12_SemFailureFatal ==
    [][\A i \in Smokers :
          /\ (i \in failed' /\ i \notin failed) =>
                /\ pc'[i] = "exited"
                /\ exitCode'[i] = "EXIT_FAILURE"
                /\ UNCHANGED <<semVars, shVars, logged>>
          /\ i \in failed =>
                /\ i \in failed'
                /\ pc[i] = "exited"
                /\ exitCode[i] = "EXIT_FAILURE"
                /\ UNCHANGED <<pc[i], exitCode[i], smokerStat[i],
                               nCigarettes[i], dec[i], nWaits[i],
                               nRolled[i]>>]_vars

\* C12 witness: the semUp of line 231 has failed for smoker i, which has
\* exited with EXIT_FAILURE in state ROLLING and with the mutex still down
C12_Witness ==
    \E i \in Smokers :
        /\ i \in failed
        /\ pc[i] = "exited"
        /\ exitCode[i] = "EXIT_FAILURE"
        /\ smokerStat[i] = ROLLING
        /\ mutex = 0
        /\ \A j \in Smokers : ~InCS(j)
        /\ ~AgentInCS

\* the step is one of smoker i
StepOf(i) == pc'[i] # pc[i] \/ n'[i] # n[i]

\* smoker i is inside a critical region with the mutex down
HoldsMutex(i) == InCS(i) /\ mutex = 0

\* C13: every step of smoker i leaves smokerStat[j] and nCigarettes[j] of
\* every other smoker j, ingredients[i], closing and wait2Ings[j] of every
\* other smoker unchanged; on its own semaphore wait2Ings[i] it only waits
\* (the value does not grow) and on waitCigarette it only signals (the value
\* does not shrink).
C13_Frame ==
    [][\A i \in Smokers :
          StepOf(i) =>
              /\ \A j \in Others(i) :
                    /\ smokerStat'[j] = smokerStat[j]
                    /\ nCigarettes'[j] = nCigarettes[j]
                    /\ wait2Ings'[j] = wait2Ings[j]
              /\ ingredients'[i] = ingredients[i]
              /\ closing' = closing
              /\ wait2Ings'[i] \in {wait2Ings[i], wait2Ings[i] - 1}
              /\ waitCigarette' \in {waitCigarette, waitCigarette + 1}]_vars

\* C13 witness: smoker i has waited on its own semaphore, taken the two
\* ingredients it lacks, signalled waitCigarette and counted its cigarette
C13_Witness ==
    \E i \in Smokers :
        /\ nWaits[i] = 1
        /\ nRolled[i] = 1
        /\ nCigarettes[i] = 1
        /\ \A k \in Others(i) : dec[i][k] = 1
        /\ dec[i][i] = 0

\* C14: a step of smoker i that changes sh->fSt starts and ends inside a
\* critical region of i with the mutex down; when smoker i leaves a critical
\* region the last state saved is the current sh->fSt; and the test of
\* sh->fSt.closing is made with the mutex held.
C14_WritesLoggedUnderMutex ==
    [][\A i \in Smokers :
          StepOf(i) =>
              /\ shVars' # shVars =>
                    /\ HoldsMutex(i)
                    /\ InCS(i)' /\ mutex' = 0
              /\ (InCS(i) /\ ~InCS(i)') => logged = fSt
              /\ pc[i] = "wfi_check" => HoldsMutex(i)]_vars

\* C14 witness: smoker i is about to release the mutex at line 197 after
\* having taken its ingredients, and the state saved is the current one
C14_Witness ==
    \E i \in Smokers :
        /\ pc[i] = "wfi_exit2"
        /\ mutex = 0
        /\ ret[i]
        /\ \A k \in Others(i) : dec[i][k] = 1
        /\ logged = fSt
        /\ logged.ingredients # [k \in Ingredients |-> 0]

\* smoker i is in rollingCigarette and has not signalled yet
BeforeSignal(i) ==
    pc[i] \in {"roll_enter", "roll_state", "roll_sleep", "roll_exit",
               "roll_signal"}

\* smoker i has signalled and has not yet counted the cigarette
AfterSignal(i) ==
    pc[i] \in {"smoke_enter", "smoke_state", "smoke_sleep", "smoke_count"}

\* C15: smoker i has signalled waitCigarette once for each cycle in which
\* waitForIngredients returned true (one per cigarette counted, plus one
\* while it is in smoke before the count, none yet while it is in
\* rollingCigarette before line 237); the signal adds one to the semaphore
\* and is made with status ROLLING, the rolling delay over and the smoker
\* outside every critical region; a smoker whose waitForIngredients returned
\* false or whose status is CLOSING_S never signals.
C15_OneSignalPerCycle ==
    /\ [](\A i \in Smokers :
            /\ nRolled[i] = nCigarettes[i] + (IF AfterSignal(i) THEN 1 ELSE 0)
            /\ pc[i] \notin {"wfi_loop", "wfi_save", "wfi_exit2"} =>
                  \A k \in Others(i) :
                      dec[i][k] = nRolled[i] + (IF BeforeSignal(i) THEN 1 ELSE 0)
            /\ smokerStat[i] = SMOKING => nRolled[i] > 0)
    /\ [][\A i \in Smokers :
            /\ nRolled'[i] # nRolled[i] =>
                  /\ nRolled'[i] = nRolled[i] + 1
                  /\ waitCigarette' = waitCigarette + 1
                  /\ smokerStat[i] = ROLLING
                  /\ smokerStat'[i] = ROLLING
                  /\ pc[i] = "roll_signal"
                  /\ delay[i] = 0
                  /\ ~InCS(i) /\ ~InCS(i)'
                  /\ mutex' = mutex
                  /\ ret[i]
            /\ (smokerStat[i] = CLOSING_S \/ ~ret[i]) =>
                  nRolled'[i] = nRolled[i]]_vars

\* C15 witness: smoker i has just signalled waitCigarette, the agent has not
\* consumed the signal, the status is still ROLLING and the mutex is free
C15_Witness ==
    \E i \in Smokers :
        /\ pc[i] = "smoke_enter"
        /\ nRolled[i] = 1
        /\ nCigarettes[i] = 0
        /\ smokerStat[i] = ROLLING
        /\ waitCigarette = 1
        /\ mutex = 1

\* C17: from the write of SMOKING (line 262) to the increment of
\* nCigarettes[i] (line 270) smoker i holds the mutex, no other actor is in
\* a critical region and only smoker i changes sh->fSt; so whenever the
\* mutex is free and the status of i is SMOKING, the cigarette of that cycle
\* is counted: i is back at the start of waitForIngredients and has counted
\* as many cigarettes as it has rolled and as it has taken ingredients for.
C17_SmokeOneRegion ==
    /\ [](\A i \in Smokers :
            /\ pc[i] \in {"smoke_sleep", "smoke_count"} =>
                  /\ smokerStat[i] = SMOKING
                  /\ mutex = 0
                  /\ NInCS = 1
            /\ (mutex = 1 /\ smokerStat[i] = SMOKING) =>
                  /\ pc[i] = "wfi_enter1"
                  /\ nCigarettes[i] = nRolled[i]
                  /\ \A k \in Others(i) : dec[i][k] = nCigarettes[i])
    /\ [][\A i \in Smokers :
            (pc[i] \in {"smoke_sleep", "smoke_count"} /\ shVars' # shVars) =>
                /\ StepOf(i)
                /\ nCigarettes'[i] = nCigarettes[i] + 1]_vars

\* C17 witness: the mutex is free, the status of smoker i is SMOKING and its
\* first cigarette is counted, while another smoker is about to roll
C17_Witness ==
    \E i \in Smokers : \E j \in Smokers \ {i} :
        /\ mutex = 1
        /\ smokerStat[i] = SMOKING
        /\ nCigarettes[i] = 1
        /\ pc[j] = "roll_enter"

\* smoker i is blocked on or about to wait on wait2Ings[i], is about to
\* signal waitCigarette, has returned from waitForIngredients,
\* rollingCigarette or smoke, or has left main's loop or exited
OutsideRegions(i) ==
    pc[i] \in {"wfi_wait", "roll_signal", "roll_enter", "smoke_enter",
               "wfi_enter1", "detach", "exited"}

\* C18: the mutex is 0 or 1, and a smoker that waits on wait2Ings[i],
\* signals waitCigarette, has returned from one of its three operations or
\* has exited does not hold it: if the mutex is down then, another actor is
\* inside a critical region.
C18_MutexReleased ==
    /\ mutex \in {0, 1}
    /\ \A i \in Smokers :
          (OutsideRegions(i) /\ mutex = 0) =>
              \/ AgentInCS
              \/ \E j \in Smokers \ {i} : InCS(j)

\* C18 witness: smoker i is blocked on its semaphore and smoker j has
\* exited, while the third smoker holds the mutex
C18_Witness ==
    \E i \in Smokers : \E j \in Smokers \ {i} :
        /\ pc[i] = "wfi_wait"
        /\ wait2Ings[i] = 0
        /\ pc[j] = "exited"
        /\ exitCode[j] = "EXIT_SUCCESS"
        /\ mutex = 0
        /\ \E l \in Smokers \ {i, j} : InCS(l)

\* C19: once closing is set no smoker decrements an ingredient: no smoker is
\* inside the loop of lines 189-192, no step changes the decrements made or
\* lowers an ingredient count, and the smoker that tests closing (line 183),
\* having consumed a signal on wait2Ings, sets its status to CLOSING_S.
C19_NoDecrementAfterClosing ==
    /\ [](closing => \A i \in Smokers : pc[i] # "wfi_loop")
    /\ [][closing =>
            /\ closing'
            /\ dec' = dec
            /\ \A k \in Ingredients : ingredients'[k] >= ingredients[k]
            /\ \A i \in Smokers :
                  (pc[i] = "wfi_check" /\ StepOf(i)) =>
                      /\ smokerStat'[i] = CLOSING_S
                      /\ ~ret'[i]]_vars

\* C19 witness: smoker i was signalled for a supply, closing was set before
\* it took the mutex, and it has exited through CLOSING_S with the two
\* ingredients supplied for it left in place
C19_Witness ==
    \E i \in Smokers :
        /\ closing
        /\ nSignals[i] = 2
        /\ nWaits[i] = 1
        /\ wait2Ings[i] = 1
        /\ pc[i] = "exited"
        /\ smokerStat[i] = CLOSING_S
        /\ \A k \in Ingredients : dec[i][k] = 0
        /\ \A k \in Others(i) : ingredients[k] = 1

\* C20: no wake-up is lost.  The value of wait2Ings[i] is the number of
\* signals issued on it less the number of waits smoker i has completed,
\* which never exceeds the number of signals; the semaphore is lowered only
\* by smoker i's semDown of line 171, one signal at a time, so a signal
\* issued while i is elsewhere stays in the semaphore; and under fair
\* scheduling every signal issued is eventually consumed by a wait of
\* smoker i, unless i has reached CLOSING_S.
C20_NoLostWakeup ==
    /\ [](\A i \in Smokers :
            /\ nWaits[i] <= nSignals[i]
            /\ wait2Ings[i] = nSignals[i] - nWaits[i])
    /\ [][\A i \in Smokers :
            /\ nSignals'[i] # nSignals[i] =>
                  /\ wait2Ings'[i] = wait2Ings[i] + 1
                  /\ nWaits'[i] = nWaits[i]
            /\ wait2Ings'[i] < wait2Ings[i] =>
                  /\ pc[i] = "wfi_wait"
                  /\ pc'[i] = "wfi_enter2"
                  /\ wait2Ings'[i] = wait2Ings[i] - 1
                  /\ nWaits'[i] = nWaits[i] + 1]_vars
    /\ \A i \in Smokers :
          []<>(nWaits[i] = nSignals[i] \/ smokerStat[i] = CLOSING_S)

\* C20 witness: smoker i, woken once, is in the delay of rollingCigarette
\* when a second signal is issued on wait2Ings[i]; the semaphore holds it
C20_Witness ==
    \E i \in Smokers :
        /\ pc[i] = "roll_sleep"
        /\ nSignals[i] = 2
        /\ nWaits[i] = 1
        /\ wait2Ings[i] = 1

\* smoker k has made its cigarette from the one supply and is blocked again
ScenarioDone(k) ==
    /\ nSignals[k] = 1
    /\ nWaits[k] = 1
    /\ wait2Ings[k] = 0
    /\ pc[k] = "wfi_wait"
    /\ smokerStat[k] = WAITING_2ING
    /\ nCigarettes[k] = 1
    /\ \A j \in Others(k) : dec[k][j] = 1 /\ ingredients[j] = 0
    /\ dec[k][k] = 0 /\ ingredients[k] = 0
    /\ ~closing

\* C16: when the agent has supplied the two ingredients smoker k lacks and
\* signalled wait2Ings[k] once, with closing never set, the status of k
\* changes only WAITING_2ING -> ROLLING -> SMOKING -> WAITING_2ING, the
\* ingredient k holds is never touched, and smoker k eventually is blocked
\* on wait2Ings[k] again with status WAITING_2ING, nCigarettes[k] one
\* higher, each of the two other ingredients one lower than after the
\* supply, and stays so; the smokers not supplied stay as they were.
C16_OneSupplyOneCigarette ==
    /\ [](\A k \in Smokers :
            /\ nSignals[k] = 0 =>
                  /\ nCigarettes[k] = 0
                  /\ smokerStat[k] = WAITING_2ING
                  /\ \A j \in Ingredients : dec[k][j] = 0
            /\ nSignals[k] = 1 =>
                  /\ ingredients[k] = 0
                  /\ dec[k][k] = 0
                  /\ nCigarettes[k] <= 1
                  /\ \A j \in Others(k) :
                        ingredients[j] = 1 - dec[k][j])
    /\ [][\A k \in Smokers :
            /\ smokerStat'[k] # smokerStat[k] =>
                  <<smokerStat[k], smokerStat'[k]>> \in
                      {<<WAITING_2ING, ROLLING>>, <<ROLLING, SMOKING>>,
                       <<SMOKING, WAITING_2ING>>}
            /\ ScenarioDone(k) => ScenarioDone(k)']_vars
    /\ (\E k \in Smokers : nSignals[k] = 1)
          ~> (\E k \in Smokers : ScenarioDone(k))

\* C16 witness: the smoker supplied has made its cigarette and waits again,
\* the agent has consumed the notification, the other smokers wait
C16_Witness ==
    \E k \in Smokers :
        /\ ScenarioDone(k)
        /\ waitCigarette = 0
        /\ nRolled[k] = 1
        /\ mutex = 1
        /\ \A j \in Smokers : pc[j] = "wfi_wait"

===========================================================================
